---- MODULE Spec2Model ----
(***************************************************************************)
(* QuestScribe state engine (src-tauri/src/main.rs, src-tauri/src/state.rs) *)
(*                                                                         *)
(* Representation.                                                         *)
(*  - A serde_json::Map is a function from keys to nodes.  A node is one of *)
(*    Obj(m), Num(n), Str(s), Bool(b).  Map equality is independent of key  *)
(*    order, as serde_json's is.                                           *)
(*  - A dotted path string is held as the list of its segments, which is   *)
(*    what str::split('.') returns: a non-empty list of dot-free segments.  *)
(*    The string "" is the list <<"">>.                                     *)
(*  - A payload text (FieldChange.value) is NumText(n), a text that         *)
(*    str::parse::<f64> accepts with value n, or WordText(s), a text that   *)
(*    it rejects.  Numbers are integers (exactly representable f64).       *)
(***************************************************************************)
EXTENDS Integers, Sequences, FiniteSets, TLC

VARIABLES
    entities,     \* AppState.entities: entity id -> Entity
    markers,      \* AppState.markers: marker id -> Marker
    markerOrder,  \* iteration order of the markers HashMap (a list of its keys)
    uuids,        \* number of ids uuid::Uuid::new_v4 has handed out
    now,          \* SystemTime::now() in seconds
    file,         \* the document on disk, NoFile when none was written
    ret,          \* the last command and what it returned
    tree,         \* a state map under direct manipulation (path-tree runs)
    treeOp,       \* the last change applied to tree, and the map before it
    pc,           \* thread -> position in the command it is running
    cmd,          \* thread -> the command it is running
    entLock,      \* holder of AppState.entities' Mutex, NoThread when free
    mkLock        \* holder of AppState.markers' Mutex, NoThread when free

vars == <<entities, markers, markerOrder, uuids, now, file, ret, tree, treeOp,
          pc, cmd, entLock, mkLock>>

storeVars == <<entities, markers, markerOrder, uuids, now, file, ret>>
treeVars == <<tree, treeOp>>
lockVars == <<pc, cmd, entLock, mkLock>>

-----------------------------------------------------------------------------
(* serde_json values *)

EmptyMap == [x \in {} |-> x]

Obj(m) == [k |-> "obj", m |-> m]
Num(n) == [k |-> "num", n |-> n]
Str(s) == [k |-> "str", s |-> s]
Bool(b) == [k |-> "bool", b |-> b]

Some(v) == [some |-> TRUE, v |-> v]
None == [some |-> FALSE]

\* Map::insert: the key is bound to value, replacing what it held.
MapInsert(obj, key, value) ==
    [x \in DOMAIN obj \cup {key} |-> IF x = key THEN value ELSE obj[x]]

\* Map::remove: the key is unbound; nothing happens when it is absent.
MapRemove(obj, key) ==
    [x \in DOMAIN obj \ {key} |-> obj[x]]

\* Map::get
MapGet(obj, key) ==
    IF key \in DOMAIN obj THEN Some(obj[key]) ELSE None

(* payload texts *)

NumText(n) == [lex |-> "numeral", n |-> n]
WordText(s) == [lex |-> "word", s |-> s]

\* change.value.parse::<f64>()
ParseF64(text) ==
    IF text.lex = "numeral" THEN Some(text.n) ELSE None

\* The value an Absolute change writes: a number when the text parses as one,
\* a boolean when it is exactly "true" or "false", the text itself otherwise.
AbsoluteValue(text) ==
    IF ParseF64(text).some THEN Num(ParseF64(text).v)
    ELSE IF text.s = "true" \/ text.s = "false" THEN Bool(text.s = "true")
    ELSE Str(text.s)

\* Value::as_f64
as_f64(node) ==
    IF node.k = "num" THEN Some(node.n) ELSE None

-----------------------------------------------------------------------------
(* nested paths *)

RECURSIVE insert_at_path(_, _, _)
insert_at_path(obj, parts, value) ==
    IF Len(parts) = 1
    THEN MapInsert(obj, parts[1], value)
    ELSE LET entry == IF parts[1] \in DOMAIN obj THEN obj[parts[1]] ELSE Obj(EmptyMap)
             held == MapInsert(obj, parts[1], entry)
         IN  IF entry.k = "obj"
             THEN MapInsert(held, parts[1],
                            Obj(insert_at_path(entry.m, Tail(parts), value)))
             ELSE held

\* set_nested_value, were it to leave an object it finds at a simple field in place.
set_nested_value_sparing_objects(state, path, value) ==
    IF Len(path) = 1
    THEN IF path[1] \in DOMAIN state /\ state[path[1]].k = "obj"
         THEN state
         ELSE MapInsert(state, path[1], value)
    ELSE insert_at_path(state, path, value)

set_nested_value(state, path, value) ==
    IF Len(path) = 1
    THEN MapInsert(state, path[1], value)
    ELSE insert_at_path(state, path, value)

RECURSIVE get_walk(_, _)
get_walk(current, parts) ==
    IF Len(parts) = 1
    THEN MapGet(current, parts[1])
    ELSE IF parts[1] \in DOMAIN current /\ current[parts[1]].k = "obj"
         THEN get_walk(current[parts[1]].m, Tail(parts))
         ELSE None

get_nested_value(state, path) ==
    IF Len(path) = 1
    THEN MapGet(state, path[1])
    ELSE get_walk(state, path)

RECURSIVE remove_at_path(_, _)
\* remove_at_path, were it to drop a scalar it meets on the way to the parent.
remove_at_path_through_scalar(obj, parts) ==
    IF Len(parts) = 1
    THEN MapRemove(obj, parts[1])
    ELSE IF parts[1] \in DOMAIN obj /\ obj[parts[1]].k = "obj"
         THEN MapInsert(obj, parts[1], Obj(remove_at_path(obj[parts[1]].m, Tail(parts))))
         ELSE MapRemove(obj, parts[1])

\* remove_at_path, were it to prune a parent object its removal emptied.
remove_at_path_pruning(obj, parts) ==
    IF Len(parts) = 1
    THEN MapRemove(obj, parts[1])
    ELSE IF parts[1] \in DOMAIN obj /\ obj[parts[1]].k = "obj"
         THEN LET nested == remove_at_path(obj[parts[1]].m, Tail(parts))
              IN  IF nested = EmptyMap
                  THEN MapRemove(obj, parts[1])
                  ELSE MapInsert(obj, parts[1], Obj(nested))
         ELSE obj

remove_at_path(obj, parts) ==
    IF Len(parts) = 1
    THEN MapRemove(obj, parts[1])
    ELSE IF parts[1] \in DOMAIN obj /\ obj[parts[1]].k = "obj"
         THEN MapInsert(obj, parts[1], Obj(remove_at_path(obj[parts[1]].m, Tail(parts))))
         ELSE obj

remove_nested_value(state, path) ==
    IF Len(path) = 1
    THEN MapRemove(state, path[1])
    ELSE remove_at_path(state, path)

-----------------------------------------------------------------------------
(* one change of a marker, as the replay loop applies it *)

FieldChange(field_name, change_type, value) ==
    [field_name |-> field_name, change_type |-> change_type, value |-> value]

\* The Relative value, were the current value not read.
RelativeValue_overwrite(state, change) ==
    IF ParseF64(change.value).some
    THEN Num(ParseF64(change.value).v)
    ELSE Str(change.value.s)

RelativeValue(state, change) ==
    IF ParseF64(change.value).some
    THEN LET got == get_nested_value(state, change.field_name)
             current_val == IF got.some /\ as_f64(got.v).some
                            THEN as_f64(got.v).v ELSE 0
         IN  Num(current_val + ParseF64(change.value).v)
    ELSE Str(change.value.s)

ApplyChange(state, change) ==
    CASE change.change_type = "remove" ->
            remove_nested_value(state, change.field_name)
      [] change.change_type = "absolute" ->
            set_nested_value(state, change.field_name, AbsoluteValue(change.value))
      [] change.change_type = "relative" ->
            set_nested_value(state, change.field_name, RelativeValue(state, change))

\* The loop over a marker's changes, were it to run from the last to the first.
RECURSIVE ApplyChanges_backwards(_, _)
ApplyChanges_backwards(state, changes) ==
    IF changes = << >> THEN state
    ELSE ApplyChange(ApplyChanges_backwards(state, Tail(changes)), Head(changes))

RECURSIVE ApplyChanges(_, _)
ApplyChanges(state, changes) ==
    IF changes = << >> THEN state
    ELSE ApplyChanges(ApplyChange(state, Head(changes)), Tail(changes))

-----------------------------------------------------------------------------
(* Path-tree runs: the helpers applied, change after change, to one map.   *)

MaxNum == 20

TreePaths == {<<"Level">>, <<"stats">>, <<"stats", "HP">>, <<"stats", "HP", "max">>}
TreeTexts == {NumText(5), NumText(10), WordText("true"), WordText("wizard")}
TreeChanges ==
    {FieldChange(f, t, v) : f \in TreePaths, t \in {"absolute", "relative"}, v \in TreeTexts}
    \cup {FieldChange(f, "remove", WordText("")) : f \in TreePaths}

NoTreeOp == [done |-> FALSE]

TreeInit ==
    /\ tree = EmptyMap
    /\ treeOp = NoTreeOp

\* The value the change hands to set_nested_value, None for a Remove.
Written(state, change) ==
    CASE change.change_type = "remove" -> None
      [] change.change_type = "absolute" -> Some(AbsoluteValue(change.value))
      [] change.change_type = "relative" -> Some(RelativeValue(state, change))

TreeApply(change) ==
    /\ Written(tree, change).some /\ Written(tree, change).v.k = "num"
            => Written(tree, change).v.n <= MaxNum
    /\ tree' = ApplyChange(tree, change)
    /\ treeOp' = [done |-> TRUE, change |-> change, before |-> tree,
                   written |-> Written(tree, change)]

TreeNext == \E change \in TreeChanges : TreeApply(change)

NoThread == "none"
Threads == {"t1", "t2"}

LockInit ==
    /\ pc = [t \in Threads |-> "idle"]
    /\ cmd = [t \in Threads |-> "none"]
    /\ entLock = NoThread
    /\ mkLock = NoThread

-----------------------------------------------------------------------------
(* The store: state.rs, and the results of commands.                       *)

Ok(v) == [ok |-> TRUE, val |-> v]
Err(msg) == [ok |-> FALSE, val |-> msg]

\* ret: the command that ran last, its arguments and its result.
Returned(name, args, result) == [cmd |-> name, inp |-> args, out |-> result]

NoFile == [written |-> FALSE]
DefaultColor == "#FFD700"

Entity(id, name, fields, color, field_metadata) ==
    [id |-> id, name |-> name, fields |-> fields, color |-> color,
     field_metadata |-> field_metadata]

FieldMetadata(created_at, last_modified) ==
    [created_at |-> created_at, last_modified |-> last_modified]

MarkerVisual(icon, color) == [icon |-> icon, color |-> color]

Marker(id, position, entity_id, changes, visual, description, created_at, modified_at) ==
    [id |-> id, position |-> position, entity_id |-> entity_id, changes |-> changes,
     visual |-> visual, description |-> description,
     created_at |-> created_at, modified_at |-> modified_at]

Document(content, ents, mks) == [content |-> content, entities |-> ents, markers |-> mks]

\* AppState::new(), a clock that started, no file on disk, no command run yet.
StoreInit ==
    /\ entities = EmptyMap
    /\ markers = EmptyMap
    /\ markerOrder = << >>
    /\ uuids = [e |-> 0, m |-> 0]
    /\ now = 0
    /\ file = NoFile
    /\ ret = Returned("none", << >>, Ok("none"))

(* HashMap iteration *)

Range(seq) == {seq[i] : i \in 1..Len(seq)}

Perms(S) == {q \in [1..Cardinality(S) -> S] : Range(q) = S}

\* HashMap::values(): the values in the map's iteration order.
Values(mks, order) == [i \in 1..Len(order) |-> mks[order[i]]]

\* The order after HashMap::insert of a new key: the table may grow and rehash,
\* so any order of the new key set can come out.
OrdersAfterInsert(order, id) == Perms(Range(order) \cup {id})

\* The order after a removal (remove, retain): the kept keys stay where they are.
OrderAfterRetain(order, kept) == SelectSeq(order, LAMBDA id : id \in kept)

\* sort_by_key(|m| m.position): a stable sort.
RECURSIVE SortByPosition(_)
SortByPosition(seq) ==
    IF seq = << >> THEN << >>
    ELSE LET h == Head(seq)
             rest == SortByPosition(Tail(seq))
         IN  SelectSeq(rest, LAMBDA m : m.position < h.position)
             \o <<h>>
             \o SelectSeq(rest, LAMBDA m : m.position >= h.position)

\* The selection, were it to take the markers at the position only.
RelevantMarkers_at_position(mks, order, entity_id, position) ==
    SortByPosition(SelectSeq(Values(mks, order),
                             LAMBDA m : m.entity_id = entity_id /\ m.position = position))

\* The selection, were it left in the map's iteration order.
RelevantMarkers_unsorted(mks, order, entity_id, position) ==
    SelectSeq(Values(mks, order),
              LAMBDA m : m.entity_id = entity_id /\ m.position <= position)

\* The markers a replay selects, in the order it applies them.
RelevantMarkers(mks, order, entity_id, position) ==
    SortByPosition(SelectSeq(Values(mks, order),
                             LAMBDA m : m.entity_id = entity_id /\ m.position <= position))

RECURSIVE ReplayMarkers(_, _)
ReplayMarkers(state, ms) ==
    IF ms = << >> THEN state
    ELSE ReplayMarkers(ApplyChanges(state, Head(ms).changes), Tail(ms))

\* get_entity_state's result on a given store.
EntityStateOf(ents, mks, order, entity_id, position) ==
    IF entity_id \notin DOMAIN ents
    THEN Err("Entity not found")
    ELSE Ok(ReplayMarkers(EmptyMap, RelevantMarkers(mks, order, entity_id, position)))

EntityState(entity_id, position) ==
    EntityStateOf(entities, markers, markerOrder, entity_id, position)

(* flattening a state into Absolute changes *)

\* The keys of a map in its iteration order (serde_json::Map sorts its keys).
KeySeq == <<"", "HP", "Level", "max", "stats">>
KeysInOrder(m) == SelectSeq(KeySeq, LAMBDA key : key \in DOMAIN m)

ValueStr(value) ==
    CASE value.k = "num" -> NumText(value.n)
      [] value.k = "bool" -> WordText(IF value.b THEN "true" ELSE "false")
      [] value.k = "str" -> WordText(value.s)

\* format!("{}.{}", prefix, key), or the key alone under an empty prefix.
JoinPath(prefix, key) ==
    IF prefix = <<"">> THEN <<key>> ELSE Append(prefix, key)

RECURSIVE flatten_keys(_, _, _)
flatten_keys(state, prefix, keys) ==
    IF keys = << >> THEN << >>
    ELSE LET key == Head(keys)
             value == state[key]
             field_name == JoinPath(prefix, key)
             here == IF value.k = "obj"
                     THEN flatten_keys(value.m, field_name, KeysInOrder(value.m))
                     ELSE <<FieldChange(field_name, "absolute", ValueStr(value))>>
         IN  here \o flatten_keys(state, prefix, Tail(keys))

flatten_state_to_changes(state, prefix) ==
    flatten_keys(state, prefix, KeysInOrder(state))

(* the field registry of an entity *)

\* The registration, were it to list the new names and record no metadata.
RECURSIVE RegisterFields_unrecorded(_, _, _)
RegisterFields_unrecorded(entity, changes, time) ==
    IF changes = << >> THEN entity
    ELSE LET f == Head(changes).field_name
             fields1 == IF f \in Range(entity.fields)
                        THEN entity.fields ELSE Append(entity.fields, f)
         IN  RegisterFields_unrecorded([entity EXCEPT !.fields = fields1],
                                       Tail(changes), time)

RECURSIVE RegisterFields(_, _, _)
RegisterFields(entity, changes, time) ==
    IF changes = << >> THEN entity
    ELSE LET f == Head(changes).field_name
             fields1 == IF f \in Range(entity.fields)
                        THEN entity.fields ELSE Append(entity.fields, f)
             meta == entity.field_metadata
             meta1 == IF f \in DOMAIN meta
                      THEN MapInsert(meta, f, FieldMetadata(meta[f].created_at, time))
                      ELSE MapInsert(meta, f, FieldMetadata(time, time))
         IN  RegisterFields([entity EXCEPT !.fields = fields1, !.field_metadata = meta1],
                            Tail(changes), time)

-----------------------------------------------------------------------------
(* Commands.  Each action is one whole command, run alone.                 *)

Keep == UNCHANGED <<treeVars, lockVars>>

create_entity(name, color) ==
    LET id == uuids.e + 1
        entity == Entity(id, name, << >>,
                         IF color.some THEN color.v ELSE DefaultColor, EmptyMap)
    IN  /\ entities' = MapInsert(entities, id, entity)
        /\ uuids' = [uuids EXCEPT !.e = id]
        /\ ret' = Returned("create_entity", <<name, color>>, Ok(entity))
        /\ UNCHANGED <<markers, markerOrder, now, file>>
        /\ Keep

\* update_entity, were it to recolour the markers of every entity.
update_entity_recolouring_all(entity_id, name, color) ==
    IF entity_id \notin DOMAIN entities
    THEN /\ ret' = Returned("update_entity", <<entity_id, name, color>>,
                            Err("Entity not found"))
         /\ UNCHANGED <<entities, markers, markerOrder, uuids, now, file>>
         /\ Keep
    ELSE LET e0 == entities[entity_id]
             e1 == IF name.some THEN [e0 EXCEPT !.name = name.v] ELSE e0
             e2 == IF color.some THEN [e1 EXCEPT !.color = color.v] ELSE e1
         IN  /\ entities' = MapInsert(entities, entity_id, e2)
             /\ markers' = IF color.some
                           THEN [id \in DOMAIN markers |->
                                    [markers[id] EXCEPT !.visual.color = color.v]]
                           ELSE markers
             /\ ret' = Returned("update_entity", <<entity_id, name, color>>, Ok(e2))
             /\ UNCHANGED <<markerOrder, uuids, now, file>>
             /\ Keep

update_entity(entity_id, name, color) ==
    IF entity_id \notin DOMAIN entities
    THEN /\ ret' = Returned("update_entity", <<entity_id, name, color>>,
                            Err("Entity not found"))
         /\ UNCHANGED <<entities, markers, markerOrder, uuids, now, file>>
         /\ Keep
    ELSE LET e0 == entities[entity_id]
             e1 == IF name.some THEN [e0 EXCEPT !.name = name.v] ELSE e0
             e2 == IF color.some THEN [e1 EXCEPT !.color = color.v] ELSE e1
         IN  /\ entities' = MapInsert(entities, entity_id, e2)
             /\ markers' = IF color.some
                           THEN [id \in DOMAIN markers |->
                                    IF markers[id].entity_id = entity_id
                                    THEN [markers[id] EXCEPT !.visual.color = color.v]
                                    ELSE markers[id]]
                           ELSE markers
             /\ ret' = Returned("update_entity", <<entity_id, name, color>>, Ok(e2))
             /\ UNCHANGED <<markerOrder, uuids, now, file>>
             /\ Keep

\* delete_entity, were it to leave the entity's markers in the index.
delete_entity_keeping_markers(entity_id) ==
    IF entity_id \notin DOMAIN entities
    THEN /\ ret' = Returned("delete_entity", <<entity_id>>, Err("Entity not found"))
         /\ UNCHANGED <<entities, markers, markerOrder, uuids, now, file>>
         /\ Keep
    ELSE /\ entities' = MapRemove(entities, entity_id)
         /\ ret' = Returned("delete_entity", <<entity_id>>, Ok("unit"))
         /\ UNCHANGED <<markers, markerOrder, uuids, now, file>>
         /\ Keep

delete_entity(entity_id) ==
    IF entity_id \notin DOMAIN entities
    THEN /\ ret' = Returned("delete_entity", <<entity_id>>, Err("Entity not found"))
         /\ UNCHANGED <<entities, markers, markerOrder, uuids, now, file>>
         /\ Keep
    ELSE LET kept == {id \in DOMAIN markers : markers[id].entity_id # entity_id}
         IN  /\ markers' = [id \in kept |-> markers[id]]
             /\ markerOrder' = OrderAfterRetain(markerOrder, kept)
             /\ entities' = MapRemove(entities, entity_id)
             /\ ret' = Returned("delete_entity", <<entity_id>>, Ok("unit"))
             /\ UNCHANGED <<uuids, now, file>>
             /\ Keep

\* The state duplicate_entity computes for its source: nothing is replayed when no
\* marker is selected.
DuplicateState(entity_id, cursor_position) ==
    LET relevant_markers ==
            SelectSeq(Values(markers, markerOrder),
                      LAMBDA m : m.entity_id = entity_id /\ m.position <= cursor_position)
    IN  IF relevant_markers = << >>
        THEN EmptyMap
        ELSE ReplayMarkers(EmptyMap, SortByPosition(relevant_markers))

\* duplicate_entity, were the copy to get the default color.
duplicate_entity_default_color(entity_id, new_name, cursor_position) ==
    IF entity_id \notin DOMAIN entities
    THEN /\ ret' = Returned("duplicate_entity", <<entity_id, new_name, cursor_position>>,
                            Err("Entity not found"))
         /\ UNCHANGED <<entities, markers, markerOrder, uuids, now, file>>
         /\ Keep
    ELSE LET source_entity == entities[entity_id]
             new_entity_id == uuids.e + 1
             new_entity == Entity(new_entity_id, new_name, source_entity.fields,
                                  DefaultColor, source_entity.field_metadata)
             changes == flatten_state_to_changes(
                            DuplicateState(entity_id, cursor_position), <<"">>)
             marker_id == uuids.m + 1
             marker == Marker(marker_id, cursor_position, new_entity_id, changes,
                              MarkerVisual("clipboard", source_entity.color),
                              <<"Duplicated from ", source_entity.name>>, now, now)
         IN  /\ entities' = MapInsert(entities, new_entity_id, new_entity)
             /\ IF changes # << >>
                THEN /\ markers' = MapInsert(markers, marker_id, marker)
                     /\ markerOrder' \in OrdersAfterInsert(markerOrder, marker_id)
                     /\ uuids' = [e |-> new_entity_id, m |-> marker_id]
                     /\ ret' = Returned("duplicate_entity",
                                        <<entity_id, new_name, cursor_position>>,
                                        Ok([entity |-> new_entity, marker |-> Some(marker)]))
                ELSE /\ UNCHANGED <<markers, markerOrder>>
                     /\ uuids' = [uuids EXCEPT !.e = new_entity_id]
                     /\ ret' = Returned("duplicate_entity",
                                        <<entity_id, new_name, cursor_position>>,
                                        Ok([entity |-> new_entity, marker |-> None]))
             /\ UNCHANGED <<now, file>>
             /\ Keep

duplicate_entity(entity_id, new_name, cursor_position) ==
    IF entity_id \notin DOMAIN entities
    THEN /\ ret' = Returned("duplicate_entity", <<entity_id, new_name, cursor_position>>,
                            Err("Entity not found"))
         /\ UNCHANGED <<entities, markers, markerOrder, uuids, now, file>>
         /\ Keep
    ELSE LET source_entity == entities[entity_id]
             new_entity_id == uuids.e + 1
             new_entity == Entity(new_entity_id, new_name, source_entity.fields,
                                  source_entity.color, source_entity.field_metadata)
             changes == flatten_state_to_changes(
                            DuplicateState(entity_id, cursor_position), <<"">>)
             marker_id == uuids.m + 1
             marker == Marker(marker_id, cursor_position, new_entity_id, changes,
                              MarkerVisual("clipboard", source_entity.color),
                              <<"Duplicated from ", source_entity.name>>, now, now)
         IN  /\ entities' = MapInsert(entities, new_entity_id, new_entity)
             /\ IF changes # << >>
                THEN /\ markers' = MapInsert(markers, marker_id, marker)
                     /\ markerOrder' \in OrdersAfterInsert(markerOrder, marker_id)
                     /\ uuids' = [e |-> new_entity_id, m |-> marker_id]
                     /\ ret' = Returned("duplicate_entity",
                                        <<entity_id, new_name, cursor_position>>,
                                        Ok([entity |-> new_entity, marker |-> Some(marker)]))
                ELSE /\ UNCHANGED <<markers, markerOrder>>
                     /\ uuids' = [uuids EXCEPT !.e = new_entity_id]
                     /\ ret' = Returned("duplicate_entity",
                                        <<entity_id, new_name, cursor_position>>,
                                        Ok([entity |-> new_entity, marker |-> None]))
             /\ UNCHANGED <<now, file>>
             /\ Keep

\* delete_field_completely, were it to spare the Remove changes.
delete_field_sparing_removes(entity_id, field_name) ==
    IF entity_id \notin DOMAIN entities
    THEN /\ ret' = Returned("delete_field_completely", <<entity_id, field_name>>,
                            Err("Entity not found"))
         /\ UNCHANGED <<entities, markers, markerOrder, uuids, now, file>>
         /\ Keep
    ELSE /\ entities' = [entities EXCEPT ![entity_id].fields =
                            SelectSeq(@, LAMBDA f : f # field_name)]
         /\ markers' = [id \in DOMAIN markers |->
                          IF markers[id].entity_id = entity_id
                          THEN [markers[id] EXCEPT !.changes =
                                  SelectSeq(@, LAMBDA change :
                                      \/ change.field_name # field_name
                                      \/ change.change_type = "remove")]
                          ELSE markers[id]]
         /\ ret' = Returned("delete_field_completely", <<entity_id, field_name>>, Ok("unit"))
         /\ UNCHANGED <<markerOrder, uuids, now, file>>
         /\ Keep

\* delete_field_completely, were it to strip the field from every marker.
delete_field_in_all_markers(entity_id, field_name) ==
    IF entity_id \notin DOMAIN entities
    THEN /\ ret' = Returned("delete_field_completely", <<entity_id, field_name>>,
                            Err("Entity not found"))
         /\ UNCHANGED <<entities, markers, markerOrder, uuids, now, file>>
         /\ Keep
    ELSE /\ entities' = [entities EXCEPT ![entity_id].fields =
                            SelectSeq(@, LAMBDA f : f # field_name)]
         /\ markers' = [id \in DOMAIN markers |->
                          [markers[id] EXCEPT !.changes =
                              SelectSeq(@, LAMBDA change : change.field_name # field_name)]]
         /\ ret' = Returned("delete_field_completely", <<entity_id, field_name>>, Ok("unit"))
         /\ UNCHANGED <<markerOrder, uuids, now, file>>
         /\ Keep

delete_field_completely(entity_id, field_name) ==
    IF entity_id \notin DOMAIN entities
    THEN /\ ret' = Returned("delete_field_completely", <<entity_id, field_name>>,
                            Err("Entity not found"))
         /\ UNCHANGED <<entities, markers, markerOrder, uuids, now, file>>
         /\ Keep
    ELSE /\ entities' = [entities EXCEPT ![entity_id].fields =
                            SelectSeq(@, LAMBDA f : f # field_name)]
         /\ markers' = [id \in DOMAIN markers |->
                          IF markers[id].entity_id = entity_id
                          THEN [markers[id] EXCEPT !.changes =
                                  SelectSeq(@, LAMBDA change : change.field_name # field_name)]
                          ELSE markers[id]]
         /\ ret' = Returned("delete_field_completely", <<entity_id, field_name>>, Ok("unit"))
         /\ UNCHANGED <<markerOrder, uuids, now, file>>
         /\ Keep

insert_marker(position, entity_id, changes, visual, description) ==
    LET id == uuids.m + 1
        marker == Marker(id, position, entity_id, changes, visual,
                         IF description.some THEN description.v ELSE << >>, now, now)
    IN  /\ markers' = MapInsert(markers, id, marker)
        /\ markerOrder' \in OrdersAfterInsert(markerOrder, id)
        /\ uuids' = [uuids EXCEPT !.m = id]
        /\ entities' = IF entity_id \in DOMAIN entities
                       THEN MapInsert(entities, entity_id,
                                      RegisterFields(entities[entity_id], changes, now))
                       ELSE entities
        /\ ret' = Returned("insert_marker",
                           <<position, entity_id, changes, visual, description>>, Ok(marker))
        /\ UNCHANGED <<now, file>>
        /\ Keep

\* update_marker, were it to stamp modified_at only when a field is supplied.
update_marker_unstamped(marker_id, position, entity_id, changes, visual, description) ==
    IF marker_id \notin DOMAIN markers
    THEN /\ ret' = Returned("update_marker",
                            <<marker_id, position, entity_id, changes, visual, description>>,
                            Err("Marker not found"))
         /\ UNCHANGED <<entities, markers, markerOrder, uuids, now, file>>
         /\ Keep
    ELSE LET m0 == markers[marker_id]
             m1 == IF position.some THEN [m0 EXCEPT !.position = position.v] ELSE m0
             m2 == IF entity_id.some THEN [m1 EXCEPT !.entity_id = entity_id.v] ELSE m1
             m3 == IF changes.some THEN [m2 EXCEPT !.changes = changes.v] ELSE m2
             m4 == IF visual.some THEN [m3 EXCEPT !.visual = visual.v] ELSE m3
             m5 == IF description.some THEN [m4 EXCEPT !.description = description.v] ELSE m4
             m6 == IF \/ position.some \/ entity_id.some \/ changes.some
                      \/ visual.some \/ description.some
                   THEN [m5 EXCEPT !.modified_at = now] ELSE m5
         IN  /\ markers' = MapInsert(markers, marker_id, m6)
             /\ entities' = IF changes.some /\ m2.entity_id \in DOMAIN entities
                            THEN MapInsert(entities, m2.entity_id,
                                           RegisterFields(entities[m2.entity_id],
                                                          changes.v, now))
                            ELSE entities
             /\ ret' = Returned("update_marker",
                                <<marker_id, position, entity_id, changes, visual, description>>,
                                Ok(m6))
             /\ UNCHANGED <<markerOrder, uuids, now, file>>
             /\ Keep

\* Both readings of the clock in update_marker fall in the same second.
update_marker(marker_id, position, entity_id, changes, visual, description) ==
    IF marker_id \notin DOMAIN markers
    THEN /\ ret' = Returned("update_marker",
                            <<marker_id, position, entity_id, changes, visual, description>>,
                            Err("Marker not found"))
         /\ UNCHANGED <<entities, markers, markerOrder, uuids, now, file>>
         /\ Keep
    ELSE LET m0 == markers[marker_id]
             m1 == IF position.some THEN [m0 EXCEPT !.position = position.v] ELSE m0
             m2 == IF entity_id.some THEN [m1 EXCEPT !.entity_id = entity_id.v] ELSE m1
             m3 == IF changes.some THEN [m2 EXCEPT !.changes = changes.v] ELSE m2
             m4 == IF visual.some THEN [m3 EXCEPT !.visual = visual.v] ELSE m3
             m5 == IF description.some THEN [m4 EXCEPT !.description = description.v] ELSE m4
             m6 == [m5 EXCEPT !.modified_at = now]
         IN  /\ markers' = MapInsert(markers, marker_id, m6)
             /\ entities' = IF changes.some /\ m2.entity_id \in DOMAIN entities
                            THEN MapInsert(entities, m2.entity_id,
                                           RegisterFields(entities[m2.entity_id],
                                                          changes.v, now))
                            ELSE entities
             /\ ret' = Returned("update_marker",
                                <<marker_id, position, entity_id, changes, visual, description>>,
                                Ok(m6))
             /\ UNCHANGED <<markerOrder, uuids, now, file>>
             /\ Keep

delete_marker(marker_id) ==
    IF marker_id \notin DOMAIN markers
    THEN /\ ret' = Returned("delete_marker", <<marker_id>>, Err("Marker not found"))
         /\ UNCHANGED <<entities, markers, markerOrder, uuids, now, file>>
         /\ Keep
    ELSE /\ markers' = MapRemove(markers, marker_id)
         /\ markerOrder' = OrderAfterRetain(markerOrder, DOMAIN markers \ {marker_id})
         /\ ret' = Returned("delete_marker", <<marker_id>>, Ok("unit"))
         /\ UNCHANGED <<entities, uuids, now, file>>
         /\ Keep

RECURSIVE ApplyPositionUpdates(_, _)
ApplyPositionUpdates(mks, position_updates) ==
    IF position_updates = << >> THEN mks
    ELSE LET marker_id == Head(position_updates)[1]
             new_position == Head(position_updates)[2]
         IN  ApplyPositionUpdates(
                 IF marker_id \in DOMAIN mks
                 THEN [mks EXCEPT ![marker_id].position = new_position]
                 ELSE mks,
                 Tail(position_updates))

\* update_marker_positions, were it to refuse a batch that names an unknown marker.
update_marker_positions_strict(position_updates) ==
    IF \E i \in 1..Len(position_updates) : position_updates[i][1] \notin DOMAIN markers
    THEN /\ ret' = Returned("update_marker_positions", <<position_updates>>,
                            Err("Marker not found"))
         /\ UNCHANGED <<entities, markers, markerOrder, uuids, now, file>>
         /\ Keep
    ELSE /\ markers' = ApplyPositionUpdates(markers, position_updates)
         /\ ret' = Returned("update_marker_positions", <<position_updates>>, Ok("unit"))
         /\ UNCHANGED <<entities, markerOrder, uuids, now, file>>
         /\ Keep

update_marker_positions(position_updates) ==
    /\ markers' = ApplyPositionUpdates(markers, position_updates)
    /\ ret' = Returned("update_marker_positions", <<position_updates>>, Ok("unit"))
    /\ UNCHANGED <<entities, markerOrder, uuids, now, file>>
    /\ Keep

(* the character sheet: a text, kept as the sequence of its lines *)

\* Display of a serde_json::Value that is no object: strings come out quoted.
DisplayValue(value) ==
    CASE value.k = "num" -> NumText(value.n)
      [] value.k = "bool" -> WordText(IF value.b THEN "true" ELSE "false")
      [] value.k = "str" -> [lex |-> "quoted", s |-> value.s]

\* format!("{}{}", indent_str, key) and format!("{}{}: {}", indent_str, key, value).
CategoryLine(indent, key) == [indent |-> indent, key |-> key, value |-> None]
ValueLine(indent, key, value) ==
    [indent |-> indent, key |-> key, value |-> Some(DisplayValue(value))]

\* lines.join("\n"): no lines at all make the empty text, which is one empty line.
JoinLines(lines) == IF lines = << >> THEN <<CategoryLine(0, "")>> ELSE lines

RECURSIVE sheet_lines(_, _, _)
sheet_lines(state, indent, keys) ==
    IF keys = << >> THEN << >>
    ELSE LET key == Head(keys)
             value == state[key]
             here == IF value.k = "obj"
                     THEN <<CategoryLine(indent, key)>>
                          \o JoinLines(sheet_lines(value.m, indent + 1,
                                                   KeysInOrder(value.m)))
                     ELSE <<ValueLine(indent, key, value)>>
         IN  here \o sheet_lines(state, indent, Tail(keys))

format_state_as_sheet(state, indent) ==
    JoinLines(sheet_lines(state, indent, KeysInOrder(state)))

\* format_character_sheet, were it to replay the markers in the order of the map.
format_character_sheet_unsorted(entity_id, position) ==
    /\ ret' = Returned("format_character_sheet", <<entity_id, position>>,
                 IF entity_id \notin DOMAIN entities
                 THEN Err("Entity not found")
                 ELSE LET current_state ==
                              ReplayMarkers(EmptyMap,
                                  RelevantMarkers_unsorted(markers, markerOrder, entity_id, position))
                      IN  Ok([title |-> entities[entity_id].name,
                              lines |-> format_state_as_sheet(current_state, 0)]))
    /\ UNCHANGED <<entities, markers, markerOrder, uuids, now, file>>
    /\ Keep

format_character_sheet(entity_id, position) ==
    /\ ret' = Returned("format_character_sheet", <<entity_id, position>>,
                 IF entity_id \notin DOMAIN entities
                 THEN Err("Entity not found")
                 ELSE LET current_state ==
                              ReplayMarkers(EmptyMap,
                                  RelevantMarkers(markers, markerOrder, entity_id, position))
                      IN  Ok([title |-> entities[entity_id].name,
                              lines |-> format_state_as_sheet(current_state, 0)]))
    /\ UNCHANGED <<entities, markers, markerOrder, uuids, now, file>>
    /\ Keep

\* get_entity_state, were it to replay without looking the entity up.
get_entity_state_unchecked(entity_id, position) ==
    /\ ret' = Returned("get_entity_state", <<entity_id, position>>,
                       Ok(ReplayMarkers(EmptyMap,
                              RelevantMarkers(markers, markerOrder, entity_id, position))))
    /\ UNCHANGED <<entities, markers, markerOrder, uuids, now, file>>
    /\ Keep

\* get_entity_state, were the marker map to iterate in a new order at every call.
get_entity_state_any_order(entity_id, position) ==
    /\ \E order \in Perms(DOMAIN markers) :
          ret' = Returned("get_entity_state", <<entity_id, position>>,
                          EntityStateOf(entities, markers, order, entity_id, position))
    /\ UNCHANGED <<entities, markers, markerOrder, uuids, now, file>>
    /\ Keep

get_entity_state(entity_id, position) ==
    /\ ret' = Returned("get_entity_state", <<entity_id, position>>,
                       EntityState(entity_id, position))
    /\ UNCHANGED <<entities, markers, markerOrder, uuids, now, file>>
    /\ Keep

\* The document is written to DocPath with the entities in some order and the markers
\* in the marker map's iteration order.
save_document(content) ==
    /\ \E entityOrder \in Perms(DOMAIN entities) :
          file' = [written |-> TRUE,
                   doc |-> Document(content,
                                    [i \in 1..Len(entityOrder) |-> entities[entityOrder[i]]],
                                    Values(markers, markerOrder))]
    /\ ret' = Returned("save_document", <<content>>, Ok("unit"))
    /\ UNCHANGED <<entities, markers, markerOrder, uuids, now>>
    /\ Keep

\* The paths a caller passes: the file save_document writes, a file that holds no
\* document, and a path where no file is.
DocPath == "story.json"
TextPath == "notes.txt"
NoPath == "missing.json"
FilePaths == {DocPath, TextPath, NoPath}

\* What load_document puts in the two maps for a document it parsed.
LoadedEntities(document) ==
    LET ents == Range(document.entities)
    IN  [id \in {e.id : e \in ents} |-> (CHOOSE e \in ents : e.id = id)]

LoadedMarkers(document) ==
    LET mks == Range(document.markers)
    IN  [id \in {mk.id : mk \in mks} |-> (CHOOSE mk \in mks : mk.id = id)]

LoadFailure(file_path) ==
    IF file_path = NoPath \/ (file_path = DocPath /\ ~file.written)
    THEN Some("Failed to read file")
    ELSE IF file_path = TextPath
         THEN Some("Failed to parse document")
         ELSE None

\* load_document, were it to clear the maps before it reads the file.
load_document_clearing_first(file_path) ==
    IF LoadFailure(file_path).some
    THEN /\ ret' = Returned("load_document", <<file_path>>, Err(LoadFailure(file_path).v))
         /\ entities' = EmptyMap
         /\ markers' = EmptyMap
         /\ markerOrder' = << >>
         /\ UNCHANGED <<uuids, now, file>>
         /\ Keep
    ELSE /\ entities' = LoadedEntities(file.doc)
         /\ markers' = LoadedMarkers(file.doc)
         /\ markerOrder' \in Perms(DOMAIN LoadedMarkers(file.doc))
         /\ ret' = Returned("load_document", <<file_path>>, Ok(file.doc))
         /\ UNCHANGED <<uuids, now, file>>
         /\ Keep

\* load_document, were it to insert into the maps without clearing them.
load_document_merging(file_path) ==
    IF LoadFailure(file_path).some
    THEN /\ ret' = Returned("load_document", <<file_path>>, Err(LoadFailure(file_path).v))
         /\ UNCHANGED <<entities, markers, markerOrder, uuids, now, file>>
         /\ Keep
    ELSE /\ entities' = [id \in DOMAIN entities \cup DOMAIN LoadedEntities(file.doc) |->
                            IF id \in DOMAIN LoadedEntities(file.doc)
                            THEN LoadedEntities(file.doc)[id] ELSE entities[id]]
         /\ markers' = [id \in DOMAIN markers \cup DOMAIN LoadedMarkers(file.doc) |->
                            IF id \in DOMAIN LoadedMarkers(file.doc)
                            THEN LoadedMarkers(file.doc)[id] ELSE markers[id]]
         /\ markerOrder' \in Perms(DOMAIN markers \cup DOMAIN LoadedMarkers(file.doc))
         /\ ret' = Returned("load_document", <<file_path>>, Ok(file.doc))
         /\ UNCHANGED <<uuids, now, file>>
         /\ Keep

\* load_document: the file is read and parsed before either map is touched.  The maps
\* are cleared and refilled, so the marker map may iterate in any order afterwards.
load_document(file_path) ==
    IF LoadFailure(file_path).some
    THEN /\ ret' = Returned("load_document", <<file_path>>, Err(LoadFailure(file_path).v))
         /\ UNCHANGED <<entities, markers, markerOrder, uuids, now, file>>
         /\ Keep
    ELSE /\ entities' = LoadedEntities(file.doc)
         /\ markers' = LoadedMarkers(file.doc)
         /\ markerOrder' \in Perms(DOMAIN LoadedMarkers(file.doc))
         /\ ret' = Returned("load_document", <<file_path>>, Ok(file.doc))
         /\ UNCHANGED <<uuids, now, file>>
         /\ Keep

new_document ==
    /\ entities' = EmptyMap
    /\ markers' = EmptyMap
    /\ markerOrder' = << >>
    /\ ret' = Returned("new_document", << >>, Ok("unit"))
    /\ UNCHANGED <<uuids, now, file>>
    /\ Keep

\* A second passes.
Tick ==
    /\ now' = now + 1
    /\ UNCHANGED <<entities, markers, markerOrder, uuids, file, ret>>
    /\ Keep

-----------------------------------------------------------------------------
(* Store runs: entities are created and duplicated, markers inserted and   *)
(* purged of fields, states read.                                          *)

MaxEntities == 2    \* entity ids handed out
MaxMarkers == 2     \* marker ids handed out
MaxChanges == 1     \* changes in one marker a caller supplies

SeqsUpTo(S, n) == UNION {[1..k -> S] : k \in 0..n}

\* Ids a caller passes: those handed out so far, and 0, which no entity or marker has.
EntityArgs == 0..uuids.e
MarkerArgs == 0..uuids.m

Positions == {5, 10}
ReadPositions == {7, 10}
Star == MarkerVisual("star", DefaultColor)

AddHP(n) == FieldChange(<<"stats", "HP">>, "relative", NumText(n))
SetHP(n) == FieldChange(<<"stats", "HP">>, "absolute", NumText(n))
RemoveHP == FieldChange(<<"stats", "HP">>, "remove", WordText(""))

FieldNames == {<<"stats">>, <<"stats", "HP">>}
Changes ==
    {SetHP(10), AddHP(10), AddHP(5), RemoveHP,
     FieldChange(<<"stats">>, "relative", NumText(5)),
     FieldChange(<<"Level">>, "relative", WordText("true"))}
ChangeLists == SeqsUpTo(Changes, MaxChanges)

Init == StoreInit /\ TreeInit /\ LockInit

Next ==
    \/ uuids.e < MaxEntities /\ create_entity("Hero", None)
    \/ \E id \in EntityArgs, p \in Positions :
          uuids.e < MaxEntities /\ uuids.m < MaxMarkers /\ duplicate_entity(id, "Clone", p)
    \/ \E id \in EntityArgs, f \in FieldNames : delete_field_completely(id, f)
    \/ \E p \in Positions, id \in EntityArgs, changes \in ChangeLists :
          uuids.m < MaxMarkers /\ insert_marker(p, id, changes, Star, None)
    \/ \E id \in EntityArgs, p \in ReadPositions : get_entity_state(id, p)

Spec == Init /\ [][Next]_vars

MarkersOf(entity_id) == {id \in DOMAIN markers : markers[id].entity_id = entity_id}

IsPrefix(a, b) == Len(a) <= Len(b) /\ SubSeq(b, 1, Len(a)) = a
StrictPrefix(a, b) == IsPrefix(a, b) /\ a # b

\* C1: the entity duplicate_entity(e, name, p) creates has, at p, the state e had at
\* p just before the call.
C1_DuplicateFidelity ==
    [][ret'.cmd = "duplicate_entity" /\ ret'.out.ok /\ uuids'.e # uuids.e
        => EntityStateOf(entities', markers', markerOrder',
                         ret'.out.val.entity.id, ret'.inp[3])
           = EntityState(ret'.inp[1], ret'.inp[3])]_vars

C4_TieBreakFixed ==
    \A e \in DOMAIN entities, p \in ReadPositions, order \in Perms(DOMAIN markers) :
        EntityStateOf(entities, markers, order, e, p) = EntityState(e, p)

AllPositions == Positions \cup ReadPositions
ClaimPaths == {<<"Level">>, <<"stats">>, <<"stats", "HP">>}

\* Some marker of e placed in (p1, p2] holds a change that satisfies Touches.
ChangedBetween(e, p1, p2, Touches(_)) ==
    \E id \in MarkersOf(e) :
        /\ p1 < markers[id].position /\ markers[id].position <= p2
        /\ \E i \in 1..Len(markers[id].changes) : Touches(markers[id].changes[i])

ReplayedAt(e, p) == Range(RelevantMarkers(markers, markerOrder, e, p))

\* C7: for p1 < p2 the markers replayed at p1 are among those replayed at p2, and a
\* value at a path at p1 is still there at p2 unless a marker in (p1, p2] holds a
\* change on the path, or an Absolute or Remove change on one of its ancestors.
C7_MonotonicReplay ==
    \A e \in DOMAIN entities, p1 \in AllPositions, p2 \in AllPositions :
        p1 < p2 =>
            /\ ReplayedAt(e, p1) \subseteq ReplayedAt(e, p2)
            /\ \A path \in ClaimPaths :
                  LET at1 == get_nested_value(EntityState(e, p1).val, path)
                      Touches(c) ==
                          \/ c.field_name = path
                          \/ /\ StrictPrefix(c.field_name, path)
                             /\ c.change_type \in {"absolute", "remove"}
                  IN  at1.some /\ ~ChangedBetween(e, p1, p2, Touches)
                          => get_nested_value(EntityState(e, p2).val, path) = at1

\* C7 as amended: for p1 < p2 the markers replayed at p1 are among those replayed at
\* p2, and a value at a path at p1 is still there at p2 unless a marker in (p1, p2]
\* holds a change, of any type, on the path, on one of its ancestors or on a path
\* below it.
C7_MonotonicReplayRelated ==
    \A e \in DOMAIN entities, p1 \in AllPositions, p2 \in AllPositions :
        p1 < p2 =>
            /\ ReplayedAt(e, p1) \subseteq ReplayedAt(e, p2)
            /\ \A path \in ClaimPaths :
                  LET at1 == get_nested_value(EntityState(e, p1).val, path)
                      Touches(c) ==
                          IsPrefix(c.field_name, path) \/ IsPrefix(path, c.field_name)
                  IN  at1.some /\ ~ChangedBetween(e, p1, p2, Touches)
                          => get_nested_value(EntityState(e, p2).val, path) = at1

\* An entity got stats.HP at position 5 and Level at position 10, and its state at 10
\* was read.
C7_Witness ==
    /\ ret.cmd = "get_entity_state" /\ ret.out.ok /\ ret.inp[2] = 10
    /\ \E a, b \in MarkersOf(ret.inp[1]) :
          /\ markers[a].position = 5 /\ markers[a].changes = <<SetHP(10)>>
          /\ markers[b].position = 10
          /\ markers[b].changes = <<FieldChange(<<"Level">>, "relative", WordText("true"))>>

HPTree(n) == [x \in {"stats"} |-> Obj([y \in {"HP"} |-> Num(n)])]

RECURSIVE ChangesOf(_)
ChangesOf(ms) ==
    IF ms = << >> THEN << >> ELSE Head(ms).changes \o ChangesOf(Tail(ms))

RECURSIVE SumOfDeltas(_)
SumOfDeltas(changes) ==
    IF changes = << >> THEN 0 ELSE Head(changes).value.n + SumOfDeltas(Tail(changes))

IsNumericAddHP(c) ==
    /\ c.field_name = <<"stats", "HP">>
    /\ c.change_type = "relative"
    /\ c.value.lex = "numeral"

\* C8: numeric Relative changes on one path add up from 0 in ascending position:
\* an entity whose markers are +10 at position 5 and +5 at position 10 on stats.HP
\* has {stats:{HP:10}} at 7 and {stats:{HP:15}} at 10, in whatever order the two
\* markers were inserted; and whenever all replayed changes are numeric Relative
\* changes on stats.HP, the state is {stats:{HP: their sum}}.
C8_AddAccumulation ==
    \A e \in DOMAIN entities :
        /\ ( /\ Cardinality(MarkersOf(e)) = 2
             /\ \E a, b \in MarkersOf(e) :
                   /\ markers[a].position = 5 /\ markers[a].changes = <<AddHP(10)>>
                   /\ markers[b].position = 10 /\ markers[b].changes = <<AddHP(5)>> )
              => /\ EntityState(e, 7) = Ok(HPTree(10))
                 /\ EntityState(e, 10) = Ok(HPTree(15))
        /\ \A p \in AllPositions :
              LET changes == ChangesOf(RelevantMarkers(markers, markerOrder, e, p))
              IN  /\ changes # << >>
                  /\ \A i \in 1..Len(changes) : IsNumericAddHP(changes[i])
                  => EntityState(e, p) = Ok(HPTree(SumOfDeltas(changes)))

\* The marker +5 at position 10 was inserted before the marker +10 at position 5, and
\* the state at 10 was read.
C8_Witness ==
    /\ ret.cmd = "get_entity_state" /\ ret.out.ok /\ ret.inp[2] = 10
    /\ MarkersOf(ret.inp[1]) = {1, 2}
    /\ markers[1].position = 10 /\ markers[1].changes = <<AddHP(5)>>
    /\ markers[2].position = 5 /\ markers[2].changes = <<AddHP(10)>>

\* The markers of e at or before p, and the lists of them in ascending position.
SelectedIds(e, p) == {id \in MarkersOf(e) : markers[id].position <= p}

AscendingLists(ids) ==
    {q \in Perms(ids) :
        \A i \in 1..Len(q), j \in 1..Len(q) :
            i < j => markers[q[i]].position <= markers[q[j]].position}

\* The reference fold: the change lists of the listed markers, applied one marker
\* after the other to a tree.
RECURSIVE FoldMarkers(_, _)
FoldMarkers(state, ids) ==
    IF ids = << >> THEN state
    ELSE FoldMarkers(ApplyChanges(state, markers[Head(ids)].changes), Tail(ids))

DistinctPositions(ids) ==
    \A a \in ids, b \in ids : a # b => markers[a].position # markers[b].position

\* C21: get_entity_state(e, p) returns the tree obtained from the empty tree by
\* applying, in ascending position, the change lists of exactly the markers of e at
\* positions <= p; when these positions are pairwise distinct there is one such
\* tree, whatever order the marker map iterates in.
C21_ReplayIsReferenceFold ==
    /\ ret.cmd = "get_entity_state" /\ ret.out.ok =>
          \E q \in AscendingLists(SelectedIds(ret.inp[1], ret.inp[2])) :
              ret.out.val = FoldMarkers(EmptyMap, q)
    /\ \A e \in DOMAIN entities, p \in AllPositions :
          DistinctPositions(SelectedIds(e, p)) =>
              \A q \in AscendingLists(SelectedIds(e, p)), order \in Perms(DOMAIN markers) :
                  EntityStateOf(entities, markers, order, e, p)
                      = Ok(FoldMarkers(EmptyMap, q))

\* The marker at position 10 was inserted before the marker at position 5 and
\* comes first in the map; the state read at 10 is the fold of 5 before 10, and the
\* state at 7 leaves the marker at 10 out.
C21_Witness ==
    /\ ret = Returned("get_entity_state", <<1, 10>>, Ok(HPTree(15)))
    /\ MarkersOf(1) = {1, 2}
    /\ markerOrder = <<1, 2>>
    /\ markers[1].position = 10 /\ markers[1].changes = <<AddHP(5)>>
    /\ markers[2].position = 5 /\ markers[2].changes = <<SetHP(10)>>
    /\ EntityState(1, 7) = Ok(HPTree(10))

-----------------------------------------------------------------------------
(* Path-tree runs.                                                         *)

TreeRun == TreeNext /\ UNCHANGED <<storeVars, lockVars>>

SpecTree == Init /\ [][TreeRun]_vars

\* C9: after set_nested_value(tree, path, v), get_nested_value(tree, path) returns v,
\* for every tree and path, also when a segment on the way holds a scalar.
C9_SetGetRoundTrip ==
    treeOp.done /\ treeOp.written.some
        => get_nested_value(tree, treeOp.change.field_name) = treeOp.written

\* C10: applying the Absolute change that was just applied once more leaves the tree
\* as it is, and a Remove of a path that was absent left the tree as it was.
C10_SetRemoveIdempotent ==
    treeOp.done =>
        /\ treeOp.change.change_type = "absolute"
              => ApplyChange(tree, treeOp.change) = tree
        /\ treeOp.change.change_type = "remove"
              /\ ~get_nested_value(treeOp.before, treeOp.change.field_name).some
              => tree = treeOp.before

\* A Remove of stats.HP.max ran on a tree that holds a scalar at stats.HP.
C10_Witness ==
    /\ treeOp.done
    /\ treeOp.change.change_type = "remove"
    /\ treeOp.change.field_name = <<"stats", "HP", "max">>
    /\ get_nested_value(treeOp.before, <<"stats", "HP">>).some
    /\ get_nested_value(treeOp.before, <<"stats", "HP">>).v.k = "num"

\* Whether state holds an object at path a, the root counting as one.
HasMapAt(state, a) ==
    \/ a = << >>
    \/ /\ get_nested_value(state, a).some
       /\ get_nested_value(state, a).v.k = "obj"

TheMapAt(state, a) == IF a = << >> THEN state ELSE get_nested_value(state, a).v.m

\* C11: a Remove deletes only the key of the path's last segment in its parent
\* object: every ancestor is still an object afterwards, with its other keys and
\* their values as before, also when the parent became empty; and when an ancestor
\* is missing or is no object the tree is as it was.
C11_PruningFreeRemove ==
    treeOp.done /\ treeOp.change.change_type = "remove" =>
        LET path == treeOp.change.field_name
            before == treeOp.before
            depth == Len(path) - 1
        IN  IF HasMapAt(before, SubSeq(path, 1, depth))
            THEN \A i \in 0..depth :
                    LET a == SubSeq(path, 1, i)
                    IN  /\ HasMapAt(tree, a)
                        /\ DOMAIN TheMapAt(tree, a) =
                               DOMAIN TheMapAt(before, a)
                                   \ (IF i = depth THEN {path[i + 1]} ELSE {})
                        /\ \A key \in DOMAIN TheMapAt(tree, a) :
                               key # path[i + 1]
                                   => TheMapAt(tree, a)[key] = TheMapAt(before, a)[key]
            ELSE tree = before

\* stats held HP alone, stats.HP was removed and stats is an empty object now.
C11_Witness ==
    /\ treeOp.done /\ treeOp.change.change_type = "remove"
    /\ treeOp.change.field_name = <<"stats", "HP">>
    /\ get_nested_value(treeOp.before, <<"stats", "HP">>).some
    /\ get_nested_value(tree, <<"stats">>) = Some(Obj(EmptyMap))

\* C22: after a Relative change whose text is a number d the path holds current + d,
\* current being the number the path held, or 0 when the path was missing or held a
\* text, a boolean or an object; after a Relative change whose text is no number the
\* path holds that text.
C22_AddSemantics ==
    treeOp.done /\ treeOp.change.change_type = "relative" =>
        LET path == treeOp.change.field_name
            text == treeOp.change.value
            held == get_nested_value(treeOp.before, path)
            current == IF held.some /\ held.v.k = "num" THEN held.v.n ELSE 0
        IN  IF text.lex = "numeral"
            THEN get_nested_value(tree, path) = Some(Num(current + text.n))
            ELSE get_nested_value(tree, path) = Some(Str(text.s))

\* C24: the tree never holds a scalar at a path and a value at a path below it;
\* and a change that writes a scalar to a path that held an object leaves the scalar
\* there and nothing at any path below.
C24_SubtreeReplacement ==
    /\ \A a \in TreePaths, b \in TreePaths :
          /\ StrictPrefix(a, b)
          /\ get_nested_value(tree, a).some
          /\ get_nested_value(tree, a).v.k # "obj"
          => ~get_nested_value(tree, b).some
    /\ treeOp.done /\ treeOp.change.change_type # "remove"
          /\ HasMapAt(treeOp.before, treeOp.change.field_name) =>
              /\ get_nested_value(tree, treeOp.change.field_name).some
              /\ get_nested_value(tree, treeOp.change.field_name).v.k # "obj"
              /\ \A b \in TreePaths :
                    StrictPrefix(treeOp.change.field_name, b)
                        => ~get_nested_value(tree, b).some

\* stats held HP, which held max; stats was set to the text wizard.
C24_Witness ==
    /\ treeOp.done
    /\ treeOp.change = FieldChange(<<"stats">>, "absolute", WordText("wizard"))
    /\ get_nested_value(treeOp.before, <<"stats", "HP", "max">>).some
    /\ tree["stats"] = Str("wizard")

-----------------------------------------------------------------------------
(* Marker runs: markers are inserted, edited, moved and deleted, for        *)
(* entities that exist and for ids no entity has, while the clock advances. *)

MaxTime == 1              \* seconds the clock advances
SmallRunEntities == 1     \* entities created in a marker run or a file run

Moon == MarkerVisual("moon", "#000000")
Note == <<"Leveled up">>
SetLevel == FieldChange(<<"Level">>, "absolute", NumText(5))

\* What a caller of update_marker supplies: nothing; a position, changes and a
\* description; or an entity id and a visual.
MarkerPatches ==
    {<<None, None, None, None, None>>,
     <<Some(10), None, Some(<<SetLevel>>), None, Some(Note)>>}
    \cup {<<None, Some(id), None, Some(Moon), None>> : id \in EntityArgs}

MarkerNext ==
    \/ uuids.e < SmallRunEntities /\ create_entity("Hero", None)
    \/ \E id \in EntityArgs :
          uuids.m < MaxMarkers /\ insert_marker(5, id, <<SetHP(10)>>, Star, None)
    \/ \E marker_id \in MarkerArgs, patch \in MarkerPatches :
          update_marker(marker_id, patch[1], patch[2], patch[3], patch[4], patch[5])
    \/ \E marker_id \in MarkerArgs : delete_marker(marker_id)
    \/ \E id \in EntityArgs, p \in ReadPositions : get_entity_state(id, p)
    \/ \E id \in EntityArgs : format_character_sheet(id, 10)
    \/ now < MaxTime /\ Tick

SpecMarkers == Init /\ [][MarkerNext]_vars

\* C12: every field_name in a change of a marker of an existing entity is in the
\* entity's field registry.
C12_RegistryInvariant ==
    \A e \in DOMAIN entities : \A id \in MarkersOf(e) :
        \A i \in 1..Len(markers[id].changes) :
            markers[id].changes[i].field_name \in Range(entities[e].fields)

\* C14: get_entity_state and format_character_sheet return "Entity not found" for
\* an id that is not in the registry, also when markers with that entity_id are in
\* the index; insert_marker stores its marker whatever the entity id, and so does
\* update_marker of an existing marker.
C14_MissingEntityFails ==
    /\ ret.cmd \in {"get_entity_state", "format_character_sheet"}
            => (ret.inp[1] \notin DOMAIN entities <=> ret.out = Err("Entity not found"))
    /\ ret.cmd = "insert_marker"
            => /\ ret.out.ok
               /\ ret.out.val.id \in DOMAIN markers
               /\ markers[ret.out.val.id] = ret.out.val
               /\ ret.out.val.entity_id = ret.inp[2]
    /\ ret.cmd = "update_marker" /\ ret.inp[1] \in DOMAIN markers
            => /\ ret.out.ok
               /\ markers[ret.inp[1]] = ret.out.val
               /\ ret.inp[3].some => ret.out.val.entity_id = ret.inp[3].v

\* The state of an id without entity was read while a marker with that id is stored.
C14_Witness ==
    /\ ret.cmd = "get_entity_state"
    /\ ret.inp[1] \notin DOMAIN entities
    /\ MarkersOf(ret.inp[1]) # {}
    /\ ~ret.out.ok

\* The value a field of a marker has after a patch: the supplied one, else the old.
Patched(supplied, old) == IF supplied.some THEN supplied.v ELSE old

\* C19: a successful update_marker replaces exactly the supplied fields among
\* position, entity_id, changes, visual and description, keeps the others as well as
\* id and created_at, keeps every other marker, and sets modified_at to the current
\* time, also when no field is supplied.  (A step that leaves the clock alone and
\* ends with the result of update_marker is a step of update_marker.)
C19_PartialMarkerUpdate ==
    [][ret'.cmd = "update_marker" /\ ret'.out.ok /\ now' = now =>
          LET marker_id == ret'.inp[1]
              old == markers[marker_id]
              new == markers'[marker_id]
          IN  /\ DOMAIN markers' = DOMAIN markers
              /\ new.position = Patched(ret'.inp[2], old.position)
              /\ new.entity_id = Patched(ret'.inp[3], old.entity_id)
              /\ new.changes = Patched(ret'.inp[4], old.changes)
              /\ new.visual = Patched(ret'.inp[5], old.visual)
              /\ new.description = Patched(ret'.inp[6], old.description)
              /\ new.id = old.id
              /\ new.created_at = old.created_at
              /\ new.modified_at = now'
              /\ ret'.out = Ok(new)
              /\ \A other \in DOMAIN markers \ {marker_id} :
                     markers'[other] = markers[other]]_vars

\* A marker created at second 0 was updated at second 1 with no field supplied,
\* while another marker is stored.
C19_Witness ==
    /\ ret.cmd = "update_marker"
    /\ ret.out.ok
    /\ \A i \in 2..6 : ~ret.inp[i].some
    /\ markers[ret.inp[1]].created_at = 0
    /\ markers[ret.inp[1]].modified_at = 1
    /\ DOMAIN markers # {ret.inp[1]}

-----------------------------------------------------------------------------
(* Entity runs: entities are created, renamed, recoloured and deleted, and  *)
(* their markers inserted and moved.                                        *)

Black == "#000000"

EntityNext ==
    \/ uuids.e < MaxEntities /\ create_entity("Hero", None)
    \/ \E id \in EntityArgs :
          uuids.m < MaxMarkers /\ insert_marker(5, id, <<SetHP(10)>>, Star, None)
    \/ \E id \in EntityArgs, name \in {None, Some("Hera")}, color \in {None, Some(Black)} :
          update_entity(id, name, color)
    \/ \E id \in EntityArgs : delete_entity(id)
    \/ \E id \in EntityArgs, p \in ReadPositions : get_entity_state(id, p)

SpecEntities == Init /\ [][EntityNext]_vars

\* C13: delete_entity(id) of an entity in the registry returns Ok, removes the entity
\* and every marker whose entity_id is id, and leaves every other entity and every
\* marker of another entity as it was; for an id not in the registry it returns
\* "Entity not found".
C13_DeleteCascade ==
    [][ret'.cmd = "delete_entity" =>
          LET id == ret'.inp[1]
          IN  IF id \in DOMAIN entities
              THEN /\ ret'.out = Ok("unit")
                   /\ DOMAIN entities' = DOMAIN entities \ {id}
                   /\ \A e \in DOMAIN entities' : entities'[e] = entities[e]
                   /\ DOMAIN markers' =
                          {mid \in DOMAIN markers : markers[mid].entity_id # id}
                   /\ \A mid \in DOMAIN markers' : markers'[mid] = markers[mid]
              ELSE ret'.out = Err("Entity not found")]_vars

\* An entity that had a marker was deleted, while another entity and its marker stay.
C13_Witness ==
    /\ ret.cmd = "delete_entity" /\ ret.out.ok
    /\ uuids.m = 2 /\ Cardinality(DOMAIN markers) = 1
    /\ \E e \in DOMAIN entities : MarkersOf(e) # {}

\* C16: update_entity(id, color = c) that returns Ok sets the entity's color to c and
\* the visual.color of every marker whose entity_id is id, and changes nothing else
\* of any marker; update_entity with no color leaves every marker as it was.
C16_RecolorCascade ==
    [][ret'.cmd = "update_entity" /\ ret'.out.ok =>
          LET id == ret'.inp[1]
              color == ret'.inp[3]
          IN  IF color.some
              THEN /\ entities'[id].color = color.v
                   /\ DOMAIN markers' = DOMAIN markers
                   /\ \A mid \in DOMAIN markers :
                          markers'[mid] =
                              IF markers[mid].entity_id = id
                              THEN [markers[mid] EXCEPT !.visual.color = color.v]
                              ELSE markers[mid]
              ELSE markers' = markers]_vars

\* An entity was recoloured; its marker took the colour, a marker of another id did not.
C16_Witness ==
    /\ ret.cmd = "update_entity" /\ ret.out.ok /\ ret.inp[3] = Some(Black)
    /\ \E mid \in MarkersOf(ret.inp[1]) : markers[mid].visual = MarkerVisual("star", Black)
    /\ \E mid \in DOMAIN markers :
          markers[mid].entity_id # ret.inp[1] /\ markers[mid].visual = Star

-----------------------------------------------------------------------------
(* Failing runs: every command that can fail is called on a small store,    *)
(* with ids that are there and ids that are not, and no document on disk.   *)

FailureNext ==
    \/ uuids.e < SmallRunEntities /\ create_entity("Hero", None)
    \/ \E id \in EntityArgs :
          uuids.m < MaxMarkers /\ insert_marker(5, id, <<SetHP(10)>>, Star, None)
    \/ \E id \in EntityArgs : update_entity(id, Some("Hera"), Some(Black))
    \/ \E id \in EntityArgs : delete_entity(id)
    \/ \E id \in EntityArgs :
          uuids.e < MaxEntities /\ uuids.m < MaxMarkers /\ duplicate_entity(id, "Clone", 5)
    \/ \E id \in EntityArgs : delete_field_completely(id, <<"stats", "HP">>)
    \/ \E marker_id \in MarkerArgs :
          update_marker(marker_id, Some(10), None, None, None, Some(Note))
    \/ \E marker_id \in MarkerArgs : delete_marker(marker_id)
    \/ \E id \in EntityArgs : get_entity_state(id, 10)
    \/ \E file_path \in FilePaths : load_document(file_path)

SpecFailures == Init /\ [][FailureNext]_vars

FailingCommands ==
    {"update_entity", "delete_entity", "duplicate_entity", "delete_field_completely",
     "update_marker", "delete_marker", "get_entity_state", "load_document"}

\* C15: a command that returns an error leaves the entity registry and the marker
\* index exactly as they were before the call.
C15_AllOrNothing ==
    [][ret'.cmd \in FailingCommands /\ ~ret'.out.ok
          => entities' = entities /\ markers' = markers]_vars

\* load_document failed to parse a file while the store held an entity and a marker.
C15_Witness ==
    /\ ret = Returned("load_document", <<TextPath>>, Err("Failed to parse document"))
    /\ entities # EmptyMap
    /\ markers # EmptyMap

\* C26: duplicate_entity creates an entity under an id no entity has, with the
\* given name and with the registry, the metadata and the color of its source;
\* every entity and every marker that was there before is as it was.
C26_DuplicationFrame ==
    [][ret'.cmd = "duplicate_entity" /\ ret'.out.ok /\ uuids'.e # uuids.e =>
          LET source_entity == entities[ret'.inp[1]]
              new_entity == ret'.out.val.entity
          IN  /\ new_entity.id \notin DOMAIN entities
              /\ DOMAIN entities' = DOMAIN entities \cup {new_entity.id}
              /\ entities'[new_entity.id] = new_entity
              /\ new_entity.name = ret'.inp[2]
              /\ new_entity.fields = source_entity.fields
              /\ new_entity.field_metadata = source_entity.field_metadata
              /\ new_entity.color = source_entity.color
              /\ \A e \in DOMAIN entities : entities'[e] = entities[e]
              /\ \A id \in DOMAIN markers :
                    id \in DOMAIN markers' /\ markers'[id] = markers[id]]_vars

\* A recoloured entity with a field and a marker was duplicated, and the copy got a
\* marker of its own.
C26_Witness ==
    /\ ret.cmd = "duplicate_entity" /\ ret.out.ok
    /\ ret.out.val.marker.some
    /\ ret.out.val.entity.color = Black
    /\ ret.out.val.entity.fields = <<<<"stats", "HP">>>>
    /\ ret.inp[1] \in DOMAIN entities
    /\ MarkersOf(ret.inp[1]) # {}

-----------------------------------------------------------------------------
(* File runs: a store is built and edited, saved to the document file and   *)
(* loaded from it, or wiped.                                                *)

Contents == {"Once upon a time", "The end"}

FileNext ==
    \/ uuids.e < MaxEntities /\ create_entity("Hero", None)
    \/ \E id \in EntityArgs :
          uuids.m < MaxMarkers /\ insert_marker(5, id, <<SetHP(10)>>, Star, None)
    \/ \E marker_id \in MarkerArgs : delete_marker(marker_id)
    \/ \E content \in Contents : save_document(content)
    \/ \E file_path \in FilePaths : load_document(file_path)
    \/ new_document

SpecFile == Init /\ [][FileNext]_vars

-----------------------------------------------------------------------------
(* Moving runs: the markers of an entity are inserted and moved in batches, *)
(* and the entity's state is read.                                          *)

\* The batches a caller of update_marker_positions passes: no pair, one pair, or two
\* pairs, which may name the same marker twice or a marker that is not there.
Batches ==
    {<< >>}
    \cup {<<<<marker_id, 12>>>> : marker_id \in MarkerArgs}
    \cup {<<<<marker_id, 12>>, <<other_id, 3>>>> :
             marker_id \in MarkerArgs, other_id \in MarkerArgs}

MoveNext ==
    \/ uuids.e < SmallRunEntities /\ create_entity("Hero", None)
    \/ \E id \in EntityArgs, p \in Positions, changes \in {<<SetHP(10)>>, <<AddHP(5)>>} :
          uuids.m < MaxMarkers /\ insert_marker(p, id, changes, Star, None)
    \/ \E batch \in Batches : update_marker_positions(batch)
    \/ \E id \in EntityArgs, p \in ReadPositions : get_entity_state(id, p)

SpecMoves == Init /\ [][MoveNext]_vars

\* The position the batch leaves a marker at: that of the last pair naming it.
FinalPosition(batch, marker_id, position) ==
    LET named == {i \in 1..Len(batch) : batch[i][1] = marker_id}
    IN  IF named = {} THEN position
        ELSE batch[CHOOSE i \in named : \A j \in named : j <= i][2]

\* C17: update_marker_positions always returns Ok; every marker a pair of the batch
\* names gets the position of the last such pair, pairs naming unknown ids change
\* nothing, and no other marker, no other field of a moved marker and no entity
\* changes; a get_entity_state that follows replays the markers by their new
\* positions.
C17_BulkReposition ==
    [][/\ ret'.cmd = "update_marker_positions" =>
             /\ ret'.out = Ok("unit")
             /\ entities' = entities
             /\ DOMAIN markers' = DOMAIN markers
             /\ \A id \in DOMAIN markers :
                    markers'[id] =
                        [markers[id] EXCEPT !.position =
                            FinalPosition(ret'.inp[1], id, markers[id].position)]
       /\ ret'.cmd = "get_entity_state" =>
             ret'.out = EntityStateOf(entities, markers, markerOrder,
                                      ret'.inp[1], ret'.inp[2])]_vars

\* The marker that sets stats.HP to 10 was moved from before the +5 marker to behind
\* position 10, and the state read at 10 holds the +5 alone.
C17_Witness ==
    /\ ret = Returned("get_entity_state", <<1, 10>>, Ok(HPTree(5)))
    /\ \E a, b \in MarkersOf(1) :
          /\ markers[a].changes = <<SetHP(10)>> /\ markers[a].position = 12
          /\ markers[b].changes = <<AddHP(5)>> /\ markers[b].position = 10

-----------------------------------------------------------------------------
(* Snapshot runs: the markers of an entity set, add to and remove its       *)
(* fields, and the entity is duplicated at a position.                      *)

SnapshotLists == {<<SetHP(10)>>, <<AddHP(5)>>, <<RemoveHP>>, <<SetLevel>>}

SnapshotNext ==
    \/ uuids.e < SmallRunEntities /\ create_entity("Hero", None)
    \/ \E p \in Positions, id \in EntityArgs, changes \in SnapshotLists :
          uuids.m < MaxMarkers /\ insert_marker(p, id, changes, Star, None)
    \/ \E id \in EntityArgs, p \in ReadPositions :
          uuids.e < MaxEntities /\ duplicate_entity(id, "Clone", p)
    \/ \E id \in EntityArgs, p \in ReadPositions : get_entity_state(id, p)

SpecSnapshots == Init /\ [][SnapshotNext]_vars

\* The paths of a tree that end in a value that is no object.
RECURSIVE LeafPaths(_)
LeafPaths(t) ==
    UNION {IF t[key].k = "obj"
           THEN {<<key>> \o rest : rest \in LeafPaths(t[key].m)}
           ELSE {<<key>>} : key \in DOMAIN t}

\* C20: duplicate_entity(e, name, p) attaches a marker to the new entity exactly
\* when the tree reconstructed for e at p is not empty; that marker is the only
\* marker of the new entity, is at p, holds Absolute changes alone, one for each
\* leaf path of the tree; when the tree is empty the result carries no marker and
\* the marker index is what it was.
C20_SnapshotBaking ==
    [][ret'.cmd = "duplicate_entity" /\ ret'.out.ok /\ uuids'.e # uuids.e =>
          LET t == EntityState(ret'.inp[1], ret'.inp[3]).val
              new_entity_id == ret'.out.val.entity.id
              attached == ret'.out.val.marker
          IN  IF t # EmptyMap
              THEN /\ attached.some
                   /\ attached.v.id \notin DOMAIN markers
                   /\ markers' = MapInsert(markers, attached.v.id, attached.v)
                   /\ {id \in DOMAIN markers' : markers'[id].entity_id = new_entity_id}
                          = {attached.v.id}
                   /\ attached.v.position = ret'.inp[3]
                   /\ \A i \in 1..Len(attached.v.changes) :
                          attached.v.changes[i].change_type = "absolute"
                   /\ {attached.v.changes[i].field_name :
                          i \in 1..Len(attached.v.changes)} = LeafPaths(t)
                   /\ Len(attached.v.changes) = Cardinality(LeafPaths(t))
              ELSE /\ ~attached.some
                   /\ markers' = markers]_vars

-----------------------------------------------------------------------------
(* List runs: markers that hold two changes, on one field or on two, are    *)
(* inserted and the entity's state is read.                                 *)

PairChanges == {SetHP(10), SetHP(5), AddHP(5), RemoveHP, SetLevel}
PairLists == [1..2 -> PairChanges]

ListNext ==
    \/ uuids.e < SmallRunEntities /\ create_entity("Hero", None)
    \/ \E p \in Positions, id \in EntityArgs, changes \in PairLists :
          uuids.m < MaxMarkers /\ insert_marker(p, id, changes, Star, None)
    \/ \E id \in EntityArgs, p \in ReadPositions : get_entity_state(id, p)

SpecLists == Init /\ [][ListNext]_vars

\* C23: the changes of one marker are applied in their list order, the later one to
\* the result of the earlier one: of two Absolute changes on a field the second
\* value stays, an Absolute change followed by a numeric Relative one leaves the
\* sum, and an Absolute change followed by a Remove leaves the path absent.
C23_InMarkerOrdering ==
    \A e \in DOMAIN entities, p \in AllPositions, id \in DOMAIN markers :
        SelectedIds(e, p) = {id} /\ Len(markers[id].changes) = 2 =>
            LET first == markers[id].changes[1]
                second == markers[id].changes[2]
                t == EntityState(e, p).val
                at == get_nested_value(t, second.field_name)
            IN  /\ t = ApplyChange(ApplyChange(EmptyMap, first), second)
                /\ first.field_name = second.field_name
                   /\ first.change_type = "absolute" =>
                      CASE second.change_type = "absolute" ->
                              at = Some(Num(second.value.n))
                        [] second.change_type = "relative" ->
                              at = Some(Num(first.value.n + second.value.n))
                        [] second.change_type = "remove" ->
                              ~at.some

\* One marker sets stats.HP to 10 and then adds 5, and the state read is 15.
C23_Witness ==
    /\ ret = Returned("get_entity_state", <<1, 7>>, Ok(HPTree(15)))
    /\ \E id \in DOMAIN markers :
          /\ SelectedIds(1, 7) = {id}
          /\ markers[id].changes = <<SetHP(10), AddHP(5)>>

-----------------------------------------------------------------------------
(* Registry runs: markers introduce fields, fields are purged and           *)
(* introduced again, while the clock advances.                              *)

RegistryLists == {<<SetHP(10)>>, <<SetLevel, SetHP(10), SetLevel>>}

RegistryNext ==
    \/ uuids.e < SmallRunEntities /\ create_entity("Hero", None)
    \/ \E id \in EntityArgs, changes \in RegistryLists :
          uuids.m < MaxMarkers /\ insert_marker(5, id, changes, Star, None)
    \/ \E marker_id \in MarkerArgs, changes \in {None, Some(<<SetLevel>>)} :
          update_marker(marker_id, None, None, changes, None, None)
    \/ \E id \in EntityArgs, f \in {<<"stats", "HP">>, <<"Level">>} :
          delete_field_completely(id, f)
    \/ now < MaxTime /\ Tick

SpecRegistry == Init /\ [][RegistryNext]_vars

NoDuplicates(seq) == \A i \in 1..Len(seq), j \in 1..Len(seq) : seq[i] = seq[j] => i = j

\* The names of a change list in the order they are first seen.
RECURSIVE FirstSeen(_)
FirstSeen(changes) ==
    IF changes = << >> THEN << >>
    ELSE LET f == changes[Len(changes)].field_name
             before == FirstSeen(SubSeq(changes, 1, Len(changes) - 1))
         IN  IF f \in Range(before) THEN before ELSE Append(before, f)

\* C25: insert_marker, and update_marker with a change list, append every name of
\* the list that the owning entity's registry lacks at its end, in first-seen order
\* and once, with created_at the current time; for a name the registry holds only
\* last_modified is refreshed.  So it is for a name that was purged before.
C25_RegistryLifecycle ==
    [][/\ now' = now
       /\ \/ ret'.cmd = "insert_marker"
          \/ ret'.cmd = "update_marker" /\ ret'.out.ok /\ ret'.inp[4].some
       /\ ret'.out.val.entity_id \in DOMAIN entities
       => LET owner == ret'.out.val.entity_id
              changes == ret'.out.val.changes
              old == entities[owner]
              new == entities'[owner]
              added == SelectSeq(FirstSeen(changes), LAMBDA f : f \notin Range(old.fields))
          IN  /\ new.fields = old.fields \o added
              /\ NoDuplicates(new.fields)
              /\ \A i \in 1..Len(changes) :
                    LET f == changes[i].field_name
                    IN  /\ f \in DOMAIN new.field_metadata
                        /\ new.field_metadata[f].last_modified = now
                        /\ IF f \in Range(old.fields)
                           THEN /\ f \in DOMAIN old.field_metadata
                                /\ new.field_metadata[f].created_at
                                       = old.field_metadata[f].created_at
                           ELSE new.field_metadata[f].created_at = now]_vars

-----------------------------------------------------------------------------
(* Replay runs: the three commands that replay an entity's markers run on   *)
(* the same stores.                                                         *)

ReplayNext ==
    \/ uuids.e < SmallRunEntities /\ create_entity("Hero", None)
    \/ \E p \in Positions, id \in EntityArgs, changes \in SnapshotLists :
          uuids.m < MaxMarkers /\ insert_marker(p, id, changes, Star, None)
    \/ \E id \in EntityArgs, p \in ReadPositions :
          uuids.e < MaxEntities /\ duplicate_entity(id, "Clone", p)
    \/ \E id \in EntityArgs, p \in ReadPositions : get_entity_state(id, p)
    \/ \E id \in EntityArgs, p \in ReadPositions : format_character_sheet(id, p)

SpecReplays == Init /\ [][ReplayNext]_vars

-----------------------------------------------------------------------------
(* Purge runs: two entities get markers on the same fields, and fields are  *)
(* purged from one of them.                                                 *)

SetStats == FieldChange(<<"stats">>, "absolute", NumText(5))
PurgeLists == {<<SetHP(10)>>, <<SetLevel, SetHP(10), SetStats, RemoveHP>>}

PurgeNext ==
    \/ uuids.e < MaxEntities /\ create_entity("Hero", None)
    \/ \E id \in EntityArgs, changes \in PurgeLists :
          uuids.m < MaxMarkers /\ insert_marker(5, id, changes, Star, None)
    \/ \E id \in EntityArgs, f \in FieldNames : delete_field_completely(id, f)
    \/ \E id \in EntityArgs, p \in ReadPositions : get_entity_state(id, p)

SpecPurges == Init /\ [][PurgeNext]_vars

\* The changes of a list that are not on f, in the order the list has them.
RECURSIVE Without(_, _)
Without(changes, f) ==
    IF changes = << >> THEN << >>
    ELSE IF Head(changes).field_name = f
         THEN Without(Tail(changes), f)
         ELSE <<Head(changes)>> \o Without(Tail(changes), f)

\* C28: delete_field_completely(e, f) takes exactly the changes on f out of the
\* markers of e and keeps the others in their order; it deletes no marker, also none
\* that is left without changes, and it leaves the markers of other entities and
\* the other entities as they were.
C28_PurgeFrame ==
    [][ret'.cmd = "delete_field_completely" /\ ret'.out.ok =>
          LET e == ret'.inp[1]
              f == ret'.inp[2]
          IN  /\ DOMAIN markers' = DOMAIN markers
              /\ \A id \in DOMAIN markers :
                    markers'[id] =
                        IF markers[id].entity_id = e
                        THEN [markers[id] EXCEPT !.changes = Without(@, f)]
                        ELSE markers[id]
              /\ DOMAIN entities' = DOMAIN entities
              /\ \A other \in DOMAIN entities \ {e} :
                    entities'[other] = entities[other]]_vars

\* stats.HP was purged from an entity whose one marker held nothing else and is now
\* empty, while the other entity's marker still holds its changes on stats.HP.
C28_Witness ==
    /\ ret.cmd = "delete_field_completely" /\ ret.out.ok
    /\ ret.inp[2] = <<"stats", "HP">>
    /\ \E a \in MarkersOf(ret.inp[1]) : markers[a].changes = << >>
    /\ \E other \in DOMAIN entities \ {ret.inp[1]} :
          /\ <<"stats", "HP">> \in Range(entities[other].fields)
          /\ \E b \in MarkersOf(other) :
                markers[b].changes = <<SetLevel, SetHP(10), SetStats, RemoveHP>>

-----------------------------------------------------------------------------
(* Isolation runs: two entities get markers at one position; the markers of *)
(* the second are edited, moved and deleted, its fields are purged, and it  *)
(* is recoloured and deleted.                                               *)

Registered == 1..uuids.e
Second == 2

\* The marker ids a caller passes for the second entity: its markers, and 0.
SecondMarkers == {0} \cup {id \in DOMAIN markers : markers[id].entity_id = Second}

IsolationNext ==
    \/ uuids.e < MaxEntities /\ create_entity("Hero", None)
    \/ \E id \in Registered, changes \in {<<SetHP(10)>>, <<AddHP(5)>>} :
          uuids.m < MaxMarkers + 1 /\ insert_marker(5, id, changes, Star, None)
    \/ \E marker_id \in SecondMarkers :
          update_marker(marker_id, None, None, Some(<<SetLevel>>), None, None)
    \/ \E marker_id \in SecondMarkers : update_marker_positions(<<<<marker_id, 12>>>>)
    \/ \E marker_id \in SecondMarkers : delete_marker(marker_id)
    \/ delete_field_completely(Second, <<"stats", "HP">>)
    \/ update_entity(Second, None, Some(Black))
    \/ delete_entity(Second)

SpecIsolation == Init /\ [][IsolationNext]_vars

\* The entity ids a command is about, given what it returned and the markers it
\* found: the id a marker is inserted for, the owner of a marker that is updated
\* (its entity_id not being changed), moved or deleted, the entity whose field is
\* purged, that is recoloured or deleted; and 0, the id no entity has, for any
\* other command.
Concerned(r, mks) ==
    CASE r.cmd = "insert_marker" -> {r.inp[2]}
      [] r.cmd = "update_marker" /\ r.inp[1] \in DOMAIN mks /\ ~r.inp[3].some ->
            {mks[r.inp[1]].entity_id}
      [] r.cmd = "delete_marker" /\ r.inp[1] \in DOMAIN mks ->
            {mks[r.inp[1]].entity_id}
      [] r.cmd = "update_marker_positions" ->
            {mks[r.inp[1][i][1]].entity_id :
                i \in {j \in 1..Len(r.inp[1]) : r.inp[1][j][1] \in DOMAIN mks}}
      [] r.cmd \in {"delete_field_completely", "update_entity", "delete_entity"} ->
            {r.inp[1]}
      [] OTHER -> {0}

IsolationPositions == {5, 7, 10, 12}

\* C29: a command on a marker of entity B, or on B itself, changes neither the
\* state of another entity A at any position nor A's field registry.
C29_EntityIsolation ==
    [][\A A \in DOMAIN entities :
          0 \notin Concerned(ret', markers) /\ A \notin Concerned(ret', markers) =>
              /\ A \in DOMAIN entities'
              /\ entities'[A].fields = entities[A].fields
              /\ \A p \in IsolationPositions :
                    EntityStateOf(entities', markers', markerOrder', A, p)
                        = EntityState(A, p)]_vars

-----------------------------------------------------------------------------
(* Metadata runs: the commands that write field metadata and marker         *)
(* timestamps, while the clock advances.                                    *)

MetadataNext ==
    \/ uuids.e < SmallRunEntities /\ create_entity("Hero", None)
    \/ \E id \in EntityArgs :
          uuids.m < MaxMarkers /\ insert_marker(5, id, <<SetHP(10)>>, Star, None)
    \/ \E marker_id \in MarkerArgs, changes \in {None, Some(<<SetLevel>>)} :
          update_marker(marker_id, None, None, changes, None, None)
    \/ \E id \in EntityArgs :
          uuids.e < MaxEntities /\ uuids.m < MaxMarkers /\ duplicate_entity(id, "Clone", 5)
    \/ \E id \in EntityArgs : delete_field_completely(id, <<"stats", "HP">>)
    \/ now < MaxTime /\ Tick

SpecMetadata == Init /\ [][MetadataNext]_vars

\* C30: every name in an entity's registry has a metadata entry, every metadata
\* entry was created no later than it was last modified, and so was every marker.
C30_MetadataInvariant ==
    /\ \A e \in DOMAIN entities :
          /\ \A f \in Range(entities[e].fields) : f \in DOMAIN entities[e].field_metadata
          /\ \A f \in DOMAIN entities[e].field_metadata :
                entities[e].field_metadata[f].created_at
                    <= entities[e].field_metadata[f].last_modified
    /\ \A id \in DOMAIN markers : markers[id].created_at <= markers[id].modified_at

\* At second 1: the copy of an entity holds the metadata of Level, created at 0 and
\* modified at 1, and of stats.HP, which was purged from the source, and a marker
\* made at 0 was updated at 1.
C30_Witness ==
    /\ now = 1
    /\ DOMAIN entities = {1, 2}
    /\ <<"Level">> \in DOMAIN entities[2].field_metadata
    /\ entities[2].field_metadata[<<"Level">>] = FieldMetadata(0, 1)
    /\ <<"stats", "HP">> \in DOMAIN entities[1].field_metadata
    /\ <<"stats", "HP">> \notin Range(entities[1].fields)
    /\ \E id \in DOMAIN markers :
          markers[id].created_at = 0 /\ markers[id].modified_at = 1

-----------------------------------------------------------------------------
(* Concurrent runs.  The two collections of AppState sit behind one Mutex    *)
(* each, and every command is a function that may run on any thread.  A run  *)
(* of a command is followed lock by lock: a guard taken with lock().unwrap() *)
(* is held until the function returns.  A command's reads and writes happen  *)
(* after its last lock() except in load_document, which fills the entity     *)
(* registry between its two lock() calls.                                    *)

Commands ==
    {"get_all_entities", "format_character_sheet", "get_entity_state", "create_entity",
     "update_entity", "delete_entity", "duplicate_entity", "delete_field_completely",
     "insert_marker", "get_all_markers", "get_markers_at_position", "update_marker",
     "delete_marker", "update_marker_positions", "save_document", "load_document",
     "new_document"}

\* The Mutexes a command locks, in the order of its lock() calls.
LockOrder(c) ==
    CASE c = "get_all_entities"        -> <<"entities">>                \* 149
      [] c = "format_character_sheet"  -> <<"entities", "markers">>     \* 179, 180
      [] c = "get_entity_state"        -> <<"entities", "markers">>     \* 245, 246
      [] c = "create_entity"           -> <<"entities">>                \* 310
      [] c = "update_entity"           -> <<"entities", "markers">>     \* 333, 334
      [] c = "delete_entity"           -> <<"entities", "markers">>     \* 363, 364
      [] c = "duplicate_entity"        -> <<"entities", "markers">>     \* 396, 397
      [] c = "delete_field_completely" -> <<"entities", "markers">>     \* 509, 510
      [] c = "insert_marker"           -> <<"markers", "entities">>     \* 541, 542
      [] c = "get_all_markers"         -> <<"markers">>                 \* 586
      [] c = "get_markers_at_position" -> <<"markers">>                 \* 596
      [] c = "update_marker"           -> <<"markers", "entities">>     \* 615, 616
      [] c = "delete_marker"           -> <<"markers">>                 \* 677
      [] c = "update_marker_positions" -> <<"markers">>                 \* 692
      [] c = "save_document"           -> <<"entities", "markers">>     \* 710, 711
      [] c = "load_document"           -> <<"entities", "markers">>     \* 741, 748
      [] c = "new_document"            -> <<"entities", "markers">>     \* 760, 761

\* The commands that write both collections.
WritesBoth ==
    {"update_entity", "delete_entity", "duplicate_entity", "delete_field_completely",
     "insert_marker", "update_marker", "load_document", "new_document"}

\* The commands that only read.
Reads ==
    {"get_all_entities", "format_character_sheet", "get_entity_state", "get_all_markers",
     "get_markers_at_position", "save_document"}

Holder(lock) == IF lock = "entities" THEN entLock ELSE mkLock

Holds(t, lock) == Holder(lock) = t

\* The lock() call thread t stands at, when it stands at one.
Wanted(t) ==
    CASE pc[t] = "lock1" -> LockOrder(cmd[t])[1]
      [] pc[t] = "lock2" -> LockOrder(cmd[t])[2]
      [] OTHER -> "nothing"

Waits(t, lock) == Wanted(t) = lock /\ Holder(lock) # NoThread

\* The webview invokes command c, which starts running on thread t.
Invoke(t, c) ==
    /\ pc[t] = "idle"
    /\ pc' = [pc EXCEPT ![t] = "lock1"]
    /\ cmd' = [cmd EXCEPT ![t] = c]
    /\ UNCHANGED <<entLock, mkLock, storeVars, treeVars>>

\* lock().unwrap(): blocks while another thread holds the Mutex.
Lock(t) ==
    /\ pc[t] \in {"lock1", "lock2"}
    /\ Holder(Wanted(t)) = NoThread
    /\ entLock' = IF Wanted(t) = "entities" THEN t ELSE entLock
    /\ mkLock' = IF Wanted(t) = "markers" THEN t ELSE mkLock
    /\ pc' = [pc EXCEPT ![t] =
                IF pc[t] = "lock1" /\ cmd[t] = "load_document" THEN "load_entities"
                ELSE IF pc[t] = "lock1" /\ Len(LockOrder(cmd[t])) = 2 THEN "lock2"
                ELSE "run"]
    /\ UNCHANGED <<cmd, storeVars, treeVars>>

\* load_document clears and fills the entity registry, then goes on to lock the markers.
LoadEntities(t) ==
    /\ pc[t] = "load_entities"
    /\ pc' = [pc EXCEPT ![t] = "lock2"]
    /\ UNCHANGED <<cmd, entLock, mkLock, storeVars, treeVars>>

\* The rest of the command runs and returns; its guards are dropped.
Return(t) ==
    /\ pc[t] = "run"
    /\ pc' = [pc EXCEPT ![t] = "idle"]
    /\ cmd' = [cmd EXCEPT ![t] = "none"]
    /\ entLock' = IF entLock = t THEN NoThread ELSE entLock
    /\ mkLock' = IF mkLock = t THEN NoThread ELSE mkLock
    /\ UNCHANGED <<storeVars, treeVars>>

LockNext ==
    \/ \E t \in Threads, c \in Commands : Invoke(t, c)
    \/ \E t \in Threads : Lock(t)
    \/ \E t \in Threads : LoadEntities(t)
    \/ \E t \in Threads : Return(t)

SpecLock == Init /\ [][LockNext]_vars

\* Thread t has made the first write of a command that writes both collections and
\* not yet the last.
MidMutation(t) ==
    /\ cmd[t] \in WritesBoth
    /\ cmd[t] = "load_document" /\ pc[t] = "lock2"

\* C5: no two threads each hold the lock the other waits for, so every command that
\* was invoked obtains its locks and returns.
C5_DeadlockFree ==
    ~ \E t \in Threads, u \in Threads :
          /\ t # u
          /\ Holds(t, "markers") /\ Waits(t, "entities")
          /\ Holds(u, "entities") /\ Waits(u, "markers")

\* C6: a command that writes both collections holds both locks from its first write
\* to its last, so no read returns while another thread is between the two.
C6_AtomicView ==
    /\ \A t \in Threads :
          MidMutation(t) => Holds(t, "entities") /\ Holds(t, "markers")
    /\ \A t \in Threads, u \in Threads :
          MidMutation(t) => ~(cmd[u] \in Reads /\ pc[u] = "run")

====
